---- MODULE Spec2Model ----
(***************************************************************************)
(* A model of persistentcache-rs: the three storage backends (FileStorage, *)
(* FileMemoryStorage, RedisStorage), and the memoization macros cache! and *)
(* cache_func! / #[persistent_cache] that sit on top of them.              *)
(*                                                                         *)
(* Strings are sequences of one-character strings, byte blobs are          *)
(* sequences of numbers.  The file system is modelled at the level of the  *)
(* system calls the code makes (open, create/truncate, flock, read, write, *)
(* readdir, unlink), each of which may fail.                               *)
(***************************************************************************)
EXTENDS Integers, Sequences, FiniteSets, TLC

\* ------------------------------------------------------------------ bounds

\* Storage operations one caller issues directly.
MaxOps == 2
\* Storage operations each of two concurrent processes issues.
MaxFileOps == 2
\* Longest byte blob a caller passes to set.
MaxLen == 2
\* I/O and connection faults injected in one run.
MaxFaults == 1
\* Largest argument a memoized function is called with.
MaxArg == 2
\* Calls of the memoized function each caller makes.
MaxCalls == 2
\* Memoized calls each of two concurrent threads or processes makes.
MaxThreadCalls == 1
\* Largest argument of the calls whose keys are compared.
MaxKeyArg == 6

\* --------------------------------------------------------------- constants

\* pub const PREFIX: &str = "pc";
PREFIX == <<"p", "c">>

\* Callers: processes (or threads), each with file descriptors of its own.
Procs == {1, 2}
NoProc == 0

\* Arguments of the memoized function.
Args == 0..MaxArg

\* The i-th byte (from 1) of the little-endian encoding of v.
Byte(v, i) == IF i = 1 THEN v % 256 ELSE ((v \div 256) \div (256 ^ (i - 2))) % 256

\* The 8 bytes of an integer below 2^32, least significant first.
LE8(v) == [i \in 1..8 |-> IF i <= 4 THEN Byte(v, i) ELSE 0]

\* DefaultHasher::new() is SipHash-1-3 with the keys 0 and 0.  A 64-bit word
\* is kept as four 16-bit limbs, least significant first.
Limb == 65536
SipInit == << <<25973, 28787, 28005, 29551>>,    \* 0x736f6d6570736575
              <<28525, 28260, 29281, 25711>>,    \* 0x646f72616e646f6d
              <<29281, 28261, 26469, 27769>>,    \* 0x6c7967656e657261
              <<25971, 31092, 25698, 29797>> >>  \* 0x7465646279746573

\* The one element of a singleton set.  Binding a value as the element of a
\* singleton computes it once, however often the bound name is used.
Once(S) == CHOOSE r \in S : TRUE

\* Bits i..15 of the exclusive or of two limbs.
RECURSIVE Xor16From(_, _, _)
Xor16From(a, b, i) ==
    IF i = 16 THEN 0
    ELSE (((a \div (2 ^ i)) + (b \div (2 ^ i))) % 2) * (2 ^ i) + Xor16From(a, b, i + 1)

Xor16(a, b) == Xor16From(a, b, 0)

WXor(x0, y0) ==
    Once({ <<Xor16(x[1], y[1]), Xor16(x[2], y[2]),
             Xor16(x[3], y[3]), Xor16(x[4], y[4])>> : x \in {x0}, y \in {y0} })

\* wrapping_add
WAdd(x0, y0) ==
    Once({ LET s1 == x[1] + y[1]
               s2 == x[2] + y[2] + (s1 \div Limb)
               s3 == x[3] + y[3] + (s2 \div Limb)
               s4 == x[4] + y[4] + (s3 \div Limb)
           IN <<s1 % Limb, s2 % Limb, s3 % Limb, s4 % Limb>> : x \in {x0}, y \in {y0} })

\* rotate_left(n)
Rotl(x0, n) ==
    Once({ LET k == n \div 16
               r == n % 16
               y == <<x[((4 - k) % 4) + 1], x[((5 - k) % 4) + 1],
                      x[((6 - k) % 4) + 1], x[((7 - k) % 4) + 1]>>
               lo(i) == (y[i] % (2 ^ (16 - r))) * (2 ^ r)
               hi(i) == y[i] \div (2 ^ (16 - r))
           IN IF r = 0 THEN y
              ELSE <<lo(1) + hi(4), lo(2) + hi(1), lo(3) + hi(2), lo(4) + hi(3)>>
         : x \in {x0} })

\* One SipRound on the state <<v0, v1, v2, v3>>.
SipRound(v) ==
    Once({ Once({ Once({ <<d0, WXor(Rotl(b1, 17), c2), Rotl(c2, 32), WXor(Rotl(b3, 21), d0)>>
                         : d0 \in {WAdd(Rotl(a0, 32), b3)}, c2 \in {WAdd(a2, b1)} })
                  : b1 \in {WXor(Rotl(v[2], 13), a0)}, b3 \in {WXor(Rotl(v[4], 16), a2)} })
           : a0 \in {WAdd(v[1], v[2])}, a2 \in {WAdd(v[3], v[4])} })

\* The state after the 8-byte word m has been written: one compression round.
SipWrite(v, m) ==
    Once({ <<WXor(w[1], m), w[2], w[3], w[4]>>
           : w \in {SipRound(<<v[1], v[2], v[3], WXor(v[4], m)>>)} })

\* The word that 8 bytes make, least significant byte first.
Word(b) == <<b[1] + 256 * b[2], b[3] + 256 * b[4],
             b[5] + 256 * b[6], b[7] + 256 * b[8]>>

\* The state after all of the bytes bs, n bytes written before them: whole
\* words first, then the rest together with the length in the top byte.
RECURSIVE SipBytes(_, _, _)
SipBytes(v0, bs0, n) ==
    Once({ IF Len(bs) >= 8
           THEN SipBytes(SipWrite(v, Word(SubSeq(bs, 1, 8))), SubSeq(bs, 9, Len(bs)), n + 8)
           ELSE SipWrite(v, Word([i \in 1..8 |->
                                   IF i <= Len(bs) THEN bs[i]
                                   ELSE IF i = 8 THEN (n + Len(bs)) % 256 ELSE 0]))
         : v \in {v0}, bs \in {bs0} })

\* finish(): v2 ^= 0xff, three rounds, v0 ^ v1 ^ v2 ^ v3.
SipFinish(v) ==
    Once({ WXor(WXor(w[1], w[2]), WXor(w[3], w[4]))
           : w \in {SipRound(SipRound(SipRound(
                        <<v[1], v[2], WXor(v[3], <<255, 0, 0, 0>>), v[4]>>)))} })

\* A bug that would hash the arguments in sorted order.
RECURSIVE HashedBytesSorted(_)
HashedBytesSorted(xs) ==
    IF xs = <<>> THEN <<>>
    ELSE LET i == CHOOSE j \in 1..Len(xs) : \A k \in 1..Len(xs) : xs[j] <= xs[k]
         IN LE8(xs[i]) \o HashedBytesSorted([k \in 1..(Len(xs) - 1) |->
                                               IF k < i THEN xs[k] ELSE xs[k + 1]])

\* item.hash(&mut s) for the tuple of the arguments: each integer writes its
\* 8 bytes, one argument after the other.
RECURSIVE HashedBytes(_)
HashedBytes(xs) ==
    IF xs = <<>> THEN <<>> ELSE LE8(Head(xs)) \o HashedBytes(Tail(xs))

\* The decimal digits of a word, as {:?} prints a u64.
RECURSIVE Decimal(_)
Decimal(x0) ==
    Once({ LET t4 == x[4]
               t3 == (t4 % 10) * Limb + x[3]
               t2 == (t3 % 10) * Limb + x[2]
               t1 == (t2 % 10) * Limb + x[1]
           IN Once({ IF q = <<0, 0, 0, 0>> THEN <<t1 % 10>> ELSE Decimal(q) \o <<t1 % 10>>
                     : q \in {<<t1 \div 10, t2 \div 10, t3 \div 10, t4 \div 10>>} })
         : x \in {x0} })

\* s.finish(), printed, after the arguments xs have been hashed.
Digest(xs) == Decimal(SipFinish(SipBytes(SipInit, HashedBytes(xs), 0)))

\* format!("{}_{}_{}_{:?}", PREFIX, $prefix, stringify!($f), s.finish())
Format(prefix, f, xs) ==
    PREFIX \o <<"_">> \o prefix \o <<"_">> \o f \o <<"_">> \o Digest(xs)

\* The key of a call with arguments xs of a function named f under the
\* default prefix "DEF".
VarNameOf(xs) == Format(<<"D", "E", "F">>, <<"f">>, xs)

\* Prefixes given to the macros, and names of memoized functions.
Prefixes == {<<"a">>, <<"a", "_", "b">>}
FuncNames == {<<"c">>, <<"b", "_", "c">>}
DefFun == [prefix |-> <<"D", "E", "F">>, f |-> <<"f">>]
NoFuns == <<DefFun, DefFun>>

\* The keys of the calls with one argument.
VarNames == [a \in Args |-> VarNameOf(<<a>>)]
VarName(a) == VarNames[a]

\* Entry names: the keys of the memoized calls, which carry the global prefix,
\* and one name that does not.
PcA == VarName(0)
PcB == VarName(1)
Other == <<"x">>
Names == {VarName(a) : a \in Args} \cup {Other}

\* The directory given to FileStorage::new, with and without a trailing '/'.
DirPaths == {<<"d">>, <<"d", "/">>}

\* Val(n): n bytes, each of value n.  Blobs of every length up to MaxLen.
Val(n) == [i \in 1..n |-> n]
Values == {Val(n) : n \in 0..MaxLen}

Backends == {"File", "FileMemory", "Redis"}

\* i-nodes: one per linked name plus one per descriptor that may still hold an
\* unlinked file open.
Inodes == 1..(Cardinality(Names) + Cardinality(Procs))
NoInode == 0
\* "No entry": a blob no caller can store (bytes are 0..255).
Absent == <<-1>>

VARIABLES
    backend,   \* which PersistentCache implementation the callers use
    dirPath,   \* FileStorage.path / FileMemoryStorage.path
    dir,       \* the directory: name -> i-node, or NoInode
    data,      \* i-node -> file content
    lock,      \* i-node -> the caller holding its flock, or NoProc
    kv,        \* the Redis database: name -> blob, or Absent
    mem,       \* FileMemoryStorage.mem of each caller: name -> blob, or Absent
    pc,        \* each caller's position inside a storage call
    call,      \* the storage call a caller is in: [op, name, val]
    fd,        \* the i-node a caller's open File refers to, or NoInode
    iter,      \* flush: directory entries (or Redis keys) not yet visited
    ret,       \* result of the last storage call: [st, val]
    faulted,   \* an I/O or connection fault hit the caller's current call
    faults,    \* faults injected so far
    prev,      \* the caller's previous completed call and its result
    nops,      \* storage calls a caller has issued directly
    stored,    \* name -> a set of a non-empty blob has completed, no flush since
    began,     \* stored, for the name of the caller's call, when the call began
    variant,   \* "cache" (cache!) or "func" (cache_func!, #[persistent_cache])
    rty,       \* return type of the memoized function
    body,      \* its body: "plain" (n + 2, as add_two) or "fib"
    hargs,     \* two arguments of a call of a function of two arguments
    hfuns,     \* the [prefix, f] of two memoized functions
    hkeys,     \* the keys derived so far from hargs
    stk,       \* each caller's stack of memoized invocations: [arg, at, acc]
    out,       \* what the caller's outermost memoized call returned
    computed,  \* argument -> times the function body has been run for it
    mutex,     \* the caller inside the guard of the static Mutex S, or NoProc
    poisoned,  \* S has been poisoned by a panic under its guard
    ncalls,    \* memoized calls a caller has made
    mcall,     \* the caller's latest outermost call: [arg, miss]
    mprev      \* the outermost call before that: [arg, miss, out]

storeVars == <<dir, data, lock, kv, mem>>
memoVars == <<variant, rty, body, hargs, hfuns, hkeys, stk, out, computed, mutex, poisoned,
              ncalls, mcall, mprev>>
vars == <<backend, dirPath, dir, data, lock, kv, mem,
          pc, call, fd, iter, ret, faulted, faults, prev, nops, stored, began, memoVars>>

\* ----------------------------------------------------------------- helpers

IsPrefix(s, t) == Len(s) <= Len(t) /\ SubSeq(t, 1, Len(s)) = s

\* Path::join / DirEntry::path: a separator is added only when needed.
JoinPath(d, name) ==
    IF d # <<>> /\ d[Len(d)] = "/" THEN d \o name ELSE d \o <<"/">> \o name

\* A bug that would remove every file of the directory.
FlushRegexMatchesAll(d, path) == TRUE

\* Regex ^{path}/{PREFIX}_ against an entry's path (literal characters only).
FlushRegexMatches(d, path) == IsPrefix(d \o <<"/">> \o PREFIX \o <<"_">>, path)

\* Redis KEYS {PREFIX}_*
RedisPatternMatches(name) == IsPrefix(PREFIX \o <<"_">>, name)

\* A bug that would use write, not write_all, and lose the last byte.
WriteAtShort(old, val) ==
    IF val = <<>> THEN old
    ELSE SubSeq(val, 1, Len(val) - 1) \o SubSeq(old, Len(val), Len(old))

\* write(2) of val at offset 0 of a file holding old.
WriteAt(old, val) == val \o SubSeq(old, Len(val) + 1, Len(old))

NoCall == [op |-> "none", name |-> <<>>, val |-> <<>>]
NoRet == [st |-> "none", val |-> <<>>]
NoMemoCall == [arg |-> 0, miss |-> FALSE]

\* What a memoized call has given its caller: nothing yet, a value, an
\* error (cache!) or a panic (cache_func!).
MNone == [st |-> "none", val |-> 0]
MOk(v) == [st |-> "ok", val |-> v]
MErr == [st |-> "err", val |-> 0]
MPanic == [st |-> "panic", val |-> 0]

\* The bytes of an entry whose write was cut short.
Leftover == <<1>>

\* The storage object a caller uses: the threads of cache_func! share the one
\* in the static S, every other caller has its own.
Handle(p) == IF variant = "func" THEN 1 ELSE p
Ok(v) == [st |-> "ok", val |-> v]
Err == [st |-> "err", val |-> <<>>]

\* The least i-node that no name links and no descriptor refers to.
FreeInode ==
    CHOOSE i \in Inodes :
        /\ \A n \in Names : dir[n] # i
        /\ \A q \in Procs : fd[q] # i
        /\ \A j \in Inodes :
              (j < i) => ((\E n \in Names : dir[n] = j) \/ (\E q \in Procs : fd[q] = j))

\* Content of the i-nodes after caller p closes its descriptor, given the
\* directory d and contents dt: an unlinked file nobody holds open is gone.
Reclaim(p, d, dt) ==
    [i \in Inodes |->
        IF /\ \A n \in Names : d[n] # i
           /\ \A q \in Procs \ {p} : fd[q] # i
        THEN <<>> ELSE dt[i]]

\* A bug that would keep the descriptor, and its flock, after the call.
UnlockedNever(p) == lock

\* Dropping the File: close(2) releases a flock the descriptor holds.
Unlocked(p) == [i \in Inodes |-> IF lock[i] = p THEN NoProc ELSE lock[i]]


\* Whether the environment may inject one more fault.
CanFault == faults < MaxFaults

\* A storage call returns r: the File (if any) has been dropped.
Returns(p, r, flt) ==
    /\ pc' = [pc EXCEPT ![p] = "done"]
    /\ ret' = [ret EXCEPT ![p] = r]
    /\ fd' = [fd EXCEPT ![p] = NoInode]
    /\ iter' = [iter EXCEPT ![p] = {}]
    /\ faulted' = [faulted EXCEPT ![p] = @ \/ flt]
    /\ faults' = IF flt THEN faults + 1 ELSE faults

\* A storage call moves on to its next system call.
Goes(p, to) ==
    /\ pc' = [pc EXCEPT ![p] = to]
    /\ UNCHANGED <<ret, iter, faulted, faults>>

\* Entry point of a call, by backend.
Entry(op) ==
    IF backend = "Redis"
    THEN (CASE op = "get" -> "redis_get"
            [] op = "set" -> "redis_set"
            [] OTHER -> "redis_keys")
    ELSE (CASE op = "get" -> "get_open"
            [] op = "set" -> "set_create"
            [] OTHER -> "flush_scan")

\* Caller p enters storage call c.
Enters(p, c) ==
    /\ pc' = [pc EXCEPT ![p] = Entry(c.op)]
    /\ call' = [call EXCEPT ![p] = c]
    /\ ret' = [ret EXCEPT ![p] = NoRet]
    /\ faulted' = [faulted EXCEPT ![p] = FALSE]
    /\ began' = [began EXCEPT ![p] = c.op # "flush" /\ stored[c.name]]
    /\ UNCHANGED <<fd, iter, faults>>

\* --------------------------------------------------- FileStorage::get
\* (and FileMemoryStorage::get, which differs only in its use of mem)

\* A bug that would pass the error of File::open on to the caller.
OnOpenErrorPropagate == Err

\* Err(_) => return Ok(vec![])
OnOpenError == Ok(<<>>)

\* A bug that would go to the file although mem holds the name.
MemHitNever(p, n) == FALSE

\* if self.mem.contains_key(&name.to_string())
MemHit(p, n) == backend = "FileMemory" /\ mem[Handle(p)][n] # Absent

\* File::open(&p): any error is taken for "no such entry".
FileGetOpen(p) ==
    /\ pc[p] = "get_open"
    /\ LET n == call[p].name IN
       IF MemHit(p, n)
       THEN /\ Returns(p, Ok(mem[Handle(p)][n]), FALSE)
            /\ UNCHANGED <<memoVars, call, prev, nops, began, stored, backend, dirPath, storeVars>>
       ELSE \E fault \in BOOLEAN :
            /\ fault => (CanFault /\ dir[n] # NoInode)
            /\ IF dir[n] = NoInode \/ fault
               THEN Returns(p, OnOpenError, fault)
               ELSE /\ Goes(p, "get_lock")
                    /\ fd' = [fd EXCEPT ![p] = dir[n]]
            /\ UNCHANGED <<memoVars, call, prev, nops, began, stored, backend, dirPath, storeVars>>

\* file.lock_exclusive()?: blocks while another descriptor holds the lock.
FileGetLock(p) ==
    /\ pc[p] = "get_lock"
    /\ \/ /\ lock[fd[p]] = NoProc
          /\ lock' = [lock EXCEPT ![fd[p]] = p]
          /\ Goes(p, "get_read")
          /\ UNCHANGED <<fd, data>>
       \/ /\ CanFault
          /\ Returns(p, Err, TRUE)
          /\ data' = Reclaim(p, dir, data)
          /\ UNCHANGED lock
    /\ UNCHANGED <<memoVars, call, prev, nops, began, stored, backend, dirPath, dir, kv, mem>>

\* file.read_to_end(&mut s), file.unlock()?, and the return.
FileGetRead(p) ==
    /\ pc[p] = "get_read"
    /\ LET n == call[p].name
           s == data[fd[p]]
       IN \E readOk \in BOOLEAN, unlockOk \in BOOLEAN :
            /\ ~(readOk /\ unlockOk) => CanFault
            /\ Returns(p, IF readOk /\ unlockOk THEN Ok(s) ELSE Err,
                       ~(readOk /\ unlockOk))
            /\ mem' = IF backend = "FileMemory" /\ readOk /\ unlockOk
                      THEN [mem EXCEPT ![Handle(p)][n] = s]
                      ELSE mem
    /\ lock' = Unlocked(p)
    /\ data' = Reclaim(p, dir, data)
    /\ UNCHANGED <<memoVars, call, prev, nops, began, stored, backend, dirPath, dir, kv>>

\* --------------------------------------------------- FileStorage::set
\* (and FileMemoryStorage::set, which first inserts into mem)

\* No flush is at work on the entries.
NoFlushRunning == \A q \in Procs : pc[q] \notin {"flush_next", "redis_del"}

\* The record of completed sets after a set of val under name n has ended,
\* well or not (not well, too, when a flush has unlinked its file meanwhile).
StoredAfter(n, val, ok) ==
    [stored EXCEPT ![n] = IF ~ok \/ val = <<>> THEN FALSE
                          ELSE IF NoFlushRunning THEN TRUE ELSE @]

\* File::create(&p): creates the file, or truncates the one that is there.
FileSetCreate(p) ==
    /\ pc[p] = "set_create"
    /\ LET n == call[p].name IN
       /\ mem' = IF backend = "FileMemory"
                 THEN [mem EXCEPT ![Handle(p)][n] = call[p].val]
                 ELSE mem
       /\ \E fault \in BOOLEAN :
            /\ fault => CanFault
            /\ IF fault
               THEN /\ Returns(p, Err, TRUE)
                    /\ UNCHANGED <<dir, data>>
               ELSE LET i == IF dir[n] = NoInode THEN FreeInode ELSE dir[n] IN
                    /\ dir' = [dir EXCEPT ![n] = i]
                    /\ data' = [data EXCEPT ![i] = <<>>]
                    /\ Goes(p, "set_lock")
                    /\ fd' = [fd EXCEPT ![p] = i]
       /\ stored' = IF call[p].val = <<>> THEN [stored EXCEPT ![n] = FALSE]
                    ELSE stored
    /\ UNCHANGED <<memoVars, call, prev, nops, began, backend, dirPath, lock, kv>>

\* file.lock_exclusive()?
FileSetLock(p) ==
    /\ pc[p] = "set_lock"
    /\ \/ /\ lock[fd[p]] = NoProc
          /\ lock' = [lock EXCEPT ![fd[p]] = p]
          /\ Goes(p, "set_write")
          /\ UNCHANGED <<fd, data, stored>>
       \/ /\ CanFault
          /\ Returns(p, Err, TRUE)
          /\ data' = Reclaim(p, dir, data)
          /\ stored' = StoredAfter(call[p].name, call[p].val, FALSE)
          /\ UNCHANGED lock
    /\ UNCHANGED <<memoVars, call, prev, nops, began, backend, dirPath, dir, kv, mem>>

\* file.write_all(val)?, file.unlock()?, Ok(()).  The descriptor is fresh, so
\* the bytes go to offset 0; a failed write_all may have written a prefix.
FileSetWrite(p) ==
    /\ pc[p] = "set_write"
    /\ LET v == call[p].val
           i == fd[p]
       IN \/ \E unlockOk \in BOOLEAN :
               /\ ~unlockOk => CanFault
               /\ Returns(p, IF unlockOk THEN Ok(<<>>) ELSE Err, ~unlockOk)
               /\ data' = Reclaim(p, dir, [data EXCEPT ![i] = WriteAt(@, v)])
               /\ stored' = StoredAfter(call[p].name, v,
                                        unlockOk /\ dir[call[p].name] = i)
          \/ \E k \in 0..(Len(v) - 1) :
               /\ CanFault
               /\ Returns(p, Err, TRUE)
               /\ data' = Reclaim(p, dir,
                              [data EXCEPT ![i] = WriteAt(@, SubSeq(v, 1, k))])
               /\ stored' = StoredAfter(call[p].name, v, FALSE)
    /\ lock' = Unlocked(p)
    /\ UNCHANGED <<memoVars, call, prev, nops, began, backend, dirPath, dir, kv, mem>>

\* ------------------------------------------------- FileStorage::flush
\* (and FileMemoryStorage::flush, which first clears mem)

\* read_dir(p) and Regex::new.
FileFlushScan(p) ==
    /\ pc[p] = "flush_scan"
    /\ mem' = IF backend = "FileMemory"
              THEN [mem EXCEPT ![Handle(p)] = [n \in Names |-> Absent]]
              ELSE mem
    /\ \E fault \in BOOLEAN :
         /\ fault => CanFault
         /\ IF fault
            THEN Returns(p, Err, TRUE)
            ELSE /\ pc' = [pc EXCEPT ![p] = "flush_next"]
                 /\ iter' = [iter EXCEPT ![p] = {n \in Names : dir[n] # NoInode}]
                 /\ UNCHANGED <<ret, fd, faulted, faults>>
    /\ stored' = [n \in Names |-> FALSE]
    /\ UNCHANGED <<memoVars, call, prev, nops, began, backend, dirPath, dir, data, lock, kv>>

\* One turn of "for file in iterator", or the Ok(()) after the loop.
FileFlushNext(p) ==
    /\ pc[p] = "flush_next"
    /\ IF iter[p] = {}
       THEN /\ Returns(p, Ok(<<>>), FALSE)
            /\ UNCHANGED <<dir, data>>
       ELSE \E n \in iter[p], fault \in BOOLEAN :
            LET f == JoinPath(dirPath, n) IN
            /\ fault => CanFault
            /\ IF fault
               THEN /\ Returns(p, Err, TRUE)
                    /\ UNCHANGED <<dir, data>>
               ELSE IF ~FlushRegexMatches(dirPath, f)
               THEN /\ iter' = [iter EXCEPT ![p] = @ \ {n}]
                    /\ UNCHANGED <<pc, ret, fd, faulted, faults, dir, data>>
               ELSE IF dir[n] = NoInode
               THEN \* remove_file(f)?: the file is gone already
                    /\ Returns(p, Err, FALSE)
                    /\ UNCHANGED <<dir, data>>
               ELSE /\ iter' = [iter EXCEPT ![p] = @ \ {n}]
                    /\ dir' = [dir EXCEPT ![n] = NoInode]
                    /\ data' = Reclaim(NoProc, [dir EXCEPT ![n] = NoInode], data)
                    /\ UNCHANGED <<pc, ret, fd, faulted, faults>>
    /\ UNCHANGED <<memoVars, call, prev, nops, began, stored, backend, dirPath, lock, kv, mem>>

\* ------------------------------------------------------- RedisStorage

\* self.con.get(name): a nil reply converts to an empty Vec<u8>.
RedisGet(p) ==
    /\ pc[p] = "redis_get"
    /\ \E fault \in BOOLEAN :
         /\ fault => CanFault
         /\ Returns(p, IF fault THEN Err
                    ELSE IF kv[call[p].name] = Absent THEN Ok(<<>>)
                    ELSE Ok(kv[call[p].name]), fault)
    /\ UNCHANGED <<memoVars, call, prev, nops, began, stored, backend, dirPath, storeVars>>

\* self.con.set(name, val)
RedisSet(p) ==
    /\ pc[p] = "redis_set"
    /\ \E fault \in BOOLEAN :
         /\ fault => CanFault
         /\ Returns(p, IF fault THEN Err ELSE Ok(<<>>), fault)
         /\ kv' = IF fault THEN kv ELSE [kv EXCEPT ![call[p].name] = call[p].val]
         /\ stored' = IF fault THEN stored
                      ELSE StoredAfter(call[p].name, call[p].val, TRUE)
    /\ UNCHANGED <<memoVars, call, prev, nops, began, backend, dirPath, dir, data, lock, mem>>

\* KEYS {PREFIX}_* and the loop that collects the reply into the DEL command.
RedisFlushKeys(p) ==
    /\ pc[p] = "redis_keys"
    /\ LET keys == {n \in Names : kv[n] # Absent /\ RedisPatternMatches(n)} IN
       \E fault \in BOOLEAN :
         /\ fault => CanFault
         /\ IF fault THEN Returns(p, Err, TRUE)
            ELSE IF keys = {} THEN Returns(p, Ok(<<>>), FALSE)
            ELSE /\ pc' = [pc EXCEPT ![p] = "redis_del"]
                 /\ iter' = [iter EXCEPT ![p] = keys]
                 /\ UNCHANGED <<ret, fd, faulted, faults>>
    /\ stored' = [n \in Names |-> FALSE]
    /\ UNCHANGED <<memoVars, call, prev, nops, began, backend, dirPath, storeVars>>

\* DEL with the collected keys.
RedisFlushDel(p) ==
    /\ pc[p] = "redis_del"
    /\ \E fault \in BOOLEAN :
         /\ fault => CanFault
         /\ Returns(p, IF fault THEN Err ELSE Ok(<<>>), fault)
         /\ kv' = IF fault THEN kv
                  ELSE [n \in Names |-> IF n \in iter[p] THEN Absent ELSE kv[n]]
    /\ UNCHANGED <<memoVars, call, prev, nops, began, stored, backend, dirPath, dir, data, lock, mem>>

\* One step inside a FileStorage or FileMemoryStorage call of caller p.
FileStep(p) ==
    \/ FileGetOpen(p)
    \/ FileGetLock(p)
    \/ FileGetRead(p)
    \/ FileSetCreate(p)
    \/ FileSetLock(p)
    \/ FileSetWrite(p)
    \/ FileFlushScan(p)
    \/ FileFlushNext(p)

\* One step inside a RedisStorage call of caller p.
RedisStep(p) ==
    \/ RedisGet(p)
    \/ RedisSet(p)
    \/ RedisFlushKeys(p)
    \/ RedisFlushDel(p)

\* One step inside a storage call of caller p.
StorageStep(p) == FileStep(p) \/ RedisStep(p)

\* ------------------------------------------------ direct use of a storage

\* The calls a caller may make on the entries named in ns.
Calls(ns) ==
    [op : {"get"}, name : ns, val : {<<>>}]
      \cup [op : {"set"}, name : ns, val : Values]
      \cup [op : {"flush"}, name : {<<>>}, val : {<<>>}]

\* Caller p calls get, set or flush on its storage handle, at most max times;
\* prev keeps the call it has just completed.
Invoke(p) ==
    /\ pc[p] \in {"idle", "done"}
    /\ nops[p] < MaxOps
    /\ \E c \in Calls({PcA, PcB, Other}) : Enters(p, c)
    /\ prev' = [prev EXCEPT ![p] = [call |-> call[p], ret |-> ret[p],
                                    faulted |-> faulted[p]]]
    /\ nops' = [nops EXCEPT ![p] = @ + 1]
    /\ UNCHANGED <<memoVars, stored, backend, dirPath, storeVars>>

\* No entry in the directory, none on the Redis server, none in memory.
EmptyStore ==
    /\ dir = [n \in Names |-> NoInode]
    /\ data = [i \in Inodes |-> <<>>]
    /\ kv = [n \in Names |-> Absent]

\* An earlier run of the program has left a truncated entry under VarName(0).
LeftoverStore ==
    /\ dir = [n \in Names |-> IF n = VarName(0) /\ backend # "Redis"
                               THEN 1 ELSE NoInode]
    /\ data = [i \in Inodes |-> IF i = 1 /\ backend # "Redis"
                                 THEN Leftover ELSE <<>>]
    /\ kv = [n \in Names |-> IF n = VarName(0) /\ backend = "Redis"
                              THEN Leftover ELSE Absent]

\* Every caller is idle and has made no call yet.
InitCallers ==
    /\ lock = [i \in Inodes |-> NoProc]
    /\ mem = [p \in Procs |-> [n \in Names |-> Absent]]
    /\ pc = [p \in Procs |-> "idle"]
    /\ call = [p \in Procs |-> NoCall]
    /\ fd = [p \in Procs |-> NoInode]
    /\ iter = [p \in Procs |-> {}]
    /\ ret = [p \in Procs |-> NoRet]
    /\ faulted = [p \in Procs |-> FALSE]
    /\ faults = 0
    /\ prev = [p \in Procs |-> [call |-> NoCall, ret |-> NoRet, faulted |-> FALSE]]
    /\ nops = [p \in Procs |-> 0]
    /\ stored = [n \in Names |-> FALSE]
    /\ began = [p \in Procs |-> FALSE]
    /\ hkeys = <<>>
    /\ stk = [p \in Procs |-> <<>>]
    /\ out = [p \in Procs |-> MNone]
    /\ computed = [a \in Args |-> 0]
    /\ mutex = NoProc
    /\ poisoned = FALSE
    /\ ncalls = [p \in Procs |-> 0]
    /\ mcall = [p \in Procs |-> NoMemoCall]
    /\ mprev = [p \in Procs |-> [arg |-> 0, miss |-> FALSE, out |-> MNone]]

Init ==
    /\ backend \in Backends
    /\ dirPath \in DirPaths
    /\ EmptyStore
    /\ InitCallers
    /\ variant = "cache"
    /\ rty = "u64"
    /\ body = "plain"
    /\ hargs = <<0, 0>>
    /\ hfuns = NoFuns

\* One caller using one storage handle, call after call.
Next == Invoke(1) \/ StorageStep(1)

Spec == Init /\ [][Next]_vars

\* Two processes, each with a FileStorage of its own on the same directory.
InitFile ==
    /\ Init
    /\ backend = "File"
    /\ dirPath = <<"d">>

\* Process p calls get, set or flush on one of two entries.
InvokeFile(p) ==
    /\ pc[p] \in {"idle", "done"}
    /\ nops[p] < MaxFileOps
    /\ \E c \in Calls({PcA, Other}) : Enters(p, c)
    /\ nops' = [nops EXCEPT ![p] = @ + 1]
    /\ UNCHANGED <<memoVars, prev, stored, backend, dirPath, storeVars>>

NextFile == \E p \in Procs : InvokeFile(p) \/ FileStep(p)

SpecFile == InitFile /\ [][NextFile]_vars

\* Two processes, each with a FileMemoryStorage of its own on the same
\* directory.
InitFileMemory ==
    /\ Init
    /\ backend = "FileMemory"
    /\ dirPath = <<"d">>

\* Process p calls get, set or flush on one entry.
InvokeFileMemory(p) ==
    /\ pc[p] \in {"idle", "done"}
    /\ nops[p] < MaxFileOps
    /\ \E c \in Calls({PcA}) : Enters(p, c)
    /\ nops' = [nops EXCEPT ![p] = @ + 1]
    /\ UNCHANGED <<memoVars, prev, stored, backend, dirPath, storeVars>>

NextFileMemory == \E p \in Procs : InvokeFileMemory(p) \/ FileStep(p)

SpecFileMemory == InitFileMemory /\ [][NextFileMemory]_vars

\* A directory that earlier runs have filled: every name is there, each with
\* a file of its own.
FullStore ==
    /\ dir = [n \in Names |-> IF n = Other THEN Cardinality(Args) + 1
                               ELSE (CHOOSE a \in Args : VarName(a) = n) + 1]
    /\ data = [i \in Inodes |-> IF i <= Cardinality(Names) THEN Val(1) ELSE <<>>]
    /\ kv = [n \in Names |-> Absent]

\* Two processes, each with a FileStorage of its own on the same, filled,
\* directory.
InitFlush ==
    /\ backend = "File"
    /\ dirPath \in DirPaths
    /\ FullStore
    /\ InitCallers
    /\ variant = "cache"
    /\ rty = "u64"
    /\ body = "plain"
    /\ hargs = <<0, 0>>
    /\ hfuns = NoFuns

\* Process p calls flush.
InvokeFlush(p) ==
    /\ pc[p] \in {"idle", "done"}
    /\ nops[p] < MaxThreadCalls
    /\ Enters(p, [op |-> "flush", name |-> <<>>, val |-> <<>>])
    /\ nops' = [nops EXCEPT ![p] = @ + 1]
    /\ UNCHANGED <<memoVars, prev, stored, backend, dirPath, storeVars>>

NextFlush == \E p \in Procs : InvokeFlush(p) \/ FileFlushScan(p) \/ FileFlushNext(p)

SpecFlush == InitFlush /\ [][NextFlush]_vars

\* ------------------------------------------------- bincode, function bodies

Types == {"unit", "u64", "path"}

\* The number that the first 8 bytes of b encode (values below 2^24 here).
FromLE8(b) == b[1] + 256 * b[2] + 65536 * b[3]

\* bincode::serialize(&res, bincode::Infinite) fails: serde refuses a path that
\* is not valid UTF-8 (every path value but 0 stands for such a path).
SerializeFails(ty, v) == ty = "path" /\ v # 0

\* bincode::serialize: () takes no bytes, a u64 takes 8, a path is a length
\* and its bytes (path 0 is "a").
Serialize(ty, v) ==
    CASE ty = "unit" -> <<>>
      [] ty = "u64" -> LE8(v)
      [] OTHER -> LE8(1) \o <<97>>

\* bincode::deserialize(&result) fails: the input ends too early.
DeserializeFails(ty, b) ==
    CASE ty = "unit" -> FALSE
      [] ty = "u64" -> Len(b) < 8
      [] OTHER -> Len(b) < 8 \/ Len(b) < 8 + FromLE8(b)

\* bincode::deserialize: bytes after the value are ignored.
Deserialize(ty, b) ==
    CASE ty = "unit" -> 0
      [] ty = "u64" -> FromLE8(b)
      [] OTHER -> 0

RECURSIVE Fib(_)
Fib(n) == IF n <= 1 THEN n ELSE Fib(n - 1) + Fib(n - 2)

\* What the function returns for argument a, computed without any cache.
FuncValue(a) ==
    IF body = "fib" THEN Fib(a)
    ELSE CASE rty = "unit" -> 0
           [] rty = "u64" -> a + 2
           [] OTHER -> a

\* A bug that would go on after a get that returned an error.
GetFailedIgnored(r) == FALSE

\* storage.get(..)? leaves with the error; .get(..).unwrap() panics on it.
GetFailed(r) == r.st = "err"

\* A bug that would take an entry that cannot be decoded for a miss as well.
IsMissOrCorrupt(ty, b) == Len(b) = 0 \/ DeserializeFails(ty, b)

\* match result.len() { 0 => ... }
IsMiss(ty, b) == Len(b) = 0

Top(p) == stk[p][Len(stk[p])]
SetTop(p, f) == [stk EXCEPT ![p] = [@ EXCEPT ![Len(@)] = f]]
Frame(a, at, acc) == [arg |-> a, at |-> at, acc |-> acc]

GetCall(a) == [op |-> "get", name |-> VarName(a), val |-> <<>>]
SetCall(a, v) == [op |-> "set", name |-> VarName(a), val |-> Serialize(rty, v)]

\* The caller starts an outermost memoized call with argument a.
Begins(p, a) ==
    /\ ncalls[p] < MaxCalls
    /\ ncalls' = [ncalls EXCEPT ![p] = @ + 1]
    /\ out' = [out EXCEPT ![p] = MNone]
    /\ mcall' = [mcall EXCEPT ![p] = [arg |-> a, miss |-> FALSE]]
    /\ mprev' = [mprev EXCEPT ![p] = [arg |-> mcall[p].arg,
                                      miss |-> mcall[p].miss, out |-> out[p]]]

\* ------------------------------------------------------------- cache!

\* cache!(storage, f(a)): var_name is built and storage.get(&var_name) called.
CacheCall(p) ==
    /\ variant = "cache"
    /\ stk[p] = <<>>
    /\ \E a \in Args :
         /\ Begins(p, a)
         /\ stk' = [stk EXCEPT ![p] = <<Frame(a, "get", 0)>>]
         /\ Enters(p, GetCall(a))
    /\ UNCHANGED <<variant, rty, body, hargs, hfuns, hkeys, computed, mutex, poisoned>>
    /\ UNCHANGED <<prev, nops, stored, backend, dirPath, storeVars>>

\* A bug that would drop the result of storage.set.
AfterSetIgnoringError(r, v) == MOk(v)

\* $storage.set(..)?; Ok(res)
AfterSet(r, v) == IF r.st = "ok" THEN MOk(v) ELSE MErr

\* The outermost (and only) invocation of cache! returns r.
CacheReturns(p, r) ==
    /\ stk' = [stk EXCEPT ![p] = <<>>]
    /\ out' = [out EXCEPT ![p] = r]
    /\ UNCHANGED <<pc, call, ret, faulted>>

\* A bug that would turn a failure of the function into a value.
OnFuncErrorDefault == MOk(0)

\* match $func(..) { .. Err(e) => Err(e) }
OnFuncError == MErr

\* storage.get(..)? has returned: match result.len() { ... }
CacheAfterGet(p) ==
    /\ variant = "cache"
    /\ stk[p] # <<>> /\ Top(p).at = "get" /\ pc[p] = "done"
    /\ LET a == Top(p).arg
           b == ret[p].val
       IN IF GetFailed(ret[p])
          THEN /\ CacheReturns(p, MErr)
               /\ UNCHANGED <<computed, mcall, began>>
          ELSE IF IsMiss(rty, b)
          THEN /\ computed' = [computed EXCEPT ![a] = @ + 1]
               /\ mcall' = [mcall EXCEPT ![p].miss = TRUE]
               /\ \E fails \in BOOLEAN :
                    IF fails
                    THEN CacheReturns(p, OnFuncError) /\ UNCHANGED began
                    ELSE IF SerializeFails(rty, FuncValue(a))
                    THEN CacheReturns(p, MErr) /\ UNCHANGED began
                    ELSE /\ stk' = SetTop(p, Frame(a, "set", FuncValue(a)))
                         /\ began' = [began EXCEPT ![p] = stored[VarName(a)]]
                         /\ pc' = [pc EXCEPT ![p] = Entry("set")]
                         /\ call' = [call EXCEPT ![p] = SetCall(a, FuncValue(a))]
                         /\ ret' = [ret EXCEPT ![p] = NoRet]
                         /\ faulted' = [faulted EXCEPT ![p] = FALSE]
                         /\ UNCHANGED out
          ELSE /\ CacheReturns(p, IF DeserializeFails(rty, b) THEN MErr
                                  ELSE MOk(Deserialize(rty, b)))
               /\ UNCHANGED <<computed, mcall, began>>
    /\ UNCHANGED <<variant, rty, body, hargs, hfuns, hkeys, mutex, poisoned, ncalls, mprev>>
    /\ UNCHANGED <<fd, iter, faults, prev, nops, stored, backend, dirPath, storeVars>>

\* storage.set(..)? has returned.
CacheAfterSet(p) ==
    /\ variant = "cache"
    /\ stk[p] # <<>> /\ Top(p).at = "set" /\ pc[p] = "done"
    /\ CacheReturns(p, AfterSet(ret[p], Top(p).acc))
    /\ UNCHANGED <<variant, rty, body, hargs, hfuns, hkeys, computed, mutex, poisoned, ncalls, mcall, mprev>>
    /\ UNCHANGED <<fd, iter, faults, prev, nops, began, stored, backend, dirPath, storeVars>>

\* One step inside a get or a set of caller p, on any backend.
GetSetStep(p) ==
    \/ FileGetOpen(p)
    \/ FileGetLock(p)
    \/ FileGetRead(p)
    \/ FileSetCreate(p)
    \/ FileSetLock(p)
    \/ FileSetWrite(p)
    \/ RedisGet(p)
    \/ RedisSet(p)

\* --------------------------------------- cache_func!, #[persistent_cache]

\* A thread starts an outermost call of the memoized function with argument a.
FuncCall(p) ==
    /\ variant = "func"
    /\ stk[p] = <<>>
    /\ \E a \in Args :
         /\ Begins(p, a)
         /\ stk' = [stk EXCEPT ![p] = <<Frame(a, "lock_get", 0)>>]
    /\ UNCHANGED <<variant, rty, body, hargs, hfuns, hkeys, computed, mutex, poisoned>>
    /\ UNCHANGED <<pc, call, ret, faulted, fd, iter, faults>>
    /\ UNCHANGED <<prev, nops, began, stored, backend, dirPath, storeVars>>

\* The thread panics: every frame of its stack unwinds; a MutexGuard that is
\* dropped on the way poisons the mutex.
Unwinds(p, poison) ==
    /\ stk' = [stk EXCEPT ![p] = <<>>]
    /\ out' = [out EXCEPT ![p] = MPanic]
    /\ poisoned' = (poisoned \/ poison)

\* The stack after its top frame has returned v: the fib frame below goes on
\* to fib(n - 2), or to the sum and the set.
Returned(s, v) ==
    LET n == Len(s) IN
    IF n = 1 THEN <<>>
    ELSE LET par == s[n - 1]
             rest == SubSeq(s, 1, n - 2)
         IN IF par.at = "body1"
            THEN rest \o <<Frame(par.arg, "body2", v),
                           Frame(par.arg - 2, "lock_get", 0)>>
            ELSE rest \o <<Frame(par.arg, "lock_set", par.acc + v)>>

\* The top invocation of thread p returns v to its caller.
Gives(p, v) ==
    /\ stk' = [stk EXCEPT ![p] = Returned(@, v)]
    /\ out' = IF Len(stk[p]) = 1 THEN [out EXCEPT ![p] = MOk(v)] ELSE out
    /\ UNCHANGED poisoned

\* A bug that would let a thread through while another holds the mutex.
MutexFreeUnchecked == TRUE

\* S.lock() blocks until no thread holds the mutex.
MutexFree == mutex = NoProc

\* S.lock().unwrap() of "S.lock().unwrap().get(..)" or "S.lock().unwrap().set(..)":
\* a poisoned mutex panics here, and so does a value that cannot be encoded
\* (with the guard alive); otherwise the storage call begins.
FuncLock(p) ==
    /\ variant = "func"
    /\ stk[p] # <<>> /\ Top(p).at \in {"lock_get", "lock_set"}
    /\ MutexFree
    /\ LET f == Top(p) IN
       IF poisoned \/ (f.at = "lock_set" /\ SerializeFails(rty, f.acc))
       THEN /\ Unwinds(p, ~poisoned)
            /\ UNCHANGED <<mutex, pc, call, ret, faulted, began, fd, iter, faults>>
       ELSE /\ mutex' = p
            /\ stk' = SetTop(p, Frame(f.arg, IF f.at = "lock_get" THEN "get" ELSE "set",
                                      f.acc))
            /\ Enters(p, IF f.at = "lock_get" THEN GetCall(f.arg)
                         ELSE SetCall(f.arg, f.acc))
            /\ UNCHANGED <<out, poisoned>>
    /\ UNCHANGED <<variant, rty, body, hargs, hfuns, hkeys, computed, ncalls, mcall, mprev>>
    /\ UNCHANGED <<prev, nops, stored, backend, dirPath, storeVars>>

\* A bug that would keep the guard alive after the statement.
MutexAfterStatementKept(t) == t

\* The guard is a temporary of the statement: it is dropped at its end.
MutexAfterStatement(t) == NoProc

\* The function body { $b } runs for argument a in the top frame of thread p.
RunsBody(p, a) ==
    /\ computed' = [computed EXCEPT ![a] = @ + 1]
    /\ mcall' = IF Len(stk[p]) = 1 THEN [mcall EXCEPT ![p].miss = TRUE] ELSE mcall
    /\ IF body = "fib"
       THEN IF a <= 1
            THEN \* "return n" leaves the function: the set is not reached
                 Gives(p, a)
            ELSE /\ stk' = [stk EXCEPT ![p] =
                              SubSeq(@, 1, Len(@) - 1)
                                \o <<Frame(a, "body1", 0), Frame(a - 1, "lock_get", 0)>>]
                 /\ UNCHANGED <<out, poisoned>>
       ELSE /\ stk' = SetTop(p, Frame(a, "lock_set", FuncValue(a)))
            /\ UNCHANGED <<out, poisoned>>

\* The get statement has ended: .unwrap() of its result, match result.len().
FuncAfterGet(p) ==
    /\ variant = "func"
    /\ stk[p] # <<>> /\ Top(p).at = "get" /\ pc[p] = "done"
    /\ mutex' = MutexAfterStatement(p)
    /\ LET a == Top(p).arg
           b == ret[p].val
       IN IF GetFailed(ret[p])
          THEN Unwinds(p, TRUE) /\ UNCHANGED <<computed, mcall>>
          ELSE IF IsMiss(rty, b)
          THEN RunsBody(p, a)
          ELSE IF DeserializeFails(rty, b)
          THEN Unwinds(p, FALSE) /\ UNCHANGED <<computed, mcall>>
          ELSE Gives(p, Deserialize(rty, b)) /\ UNCHANGED <<computed, mcall>>
    /\ UNCHANGED <<variant, rty, body, hargs, hfuns, hkeys, ncalls, mprev>>
    /\ UNCHANGED <<pc, call, ret, faulted, fd, iter, faults>>
    /\ UNCHANGED <<prev, nops, began, stored, backend, dirPath, storeVars>>

\* The set statement has ended: .unwrap() of its result, return res.
FuncAfterSet(p) ==
    /\ variant = "func"
    /\ stk[p] # <<>> /\ Top(p).at = "set" /\ pc[p] = "done"
    /\ mutex' = MutexAfterStatement(p)
    /\ IF ret[p].st = "err"
       THEN Unwinds(p, TRUE)
       ELSE Gives(p, Top(p).acc)
    /\ UNCHANGED <<variant, rty, body, hargs, hfuns, hkeys, computed, ncalls, mcall, mprev>>
    /\ UNCHANGED <<pc, call, ret, faulted, fd, iter, faults>>
    /\ UNCHANGED <<prev, nops, began, stored, backend, dirPath, storeVars>>

\* One step of a memoized call of caller p.
MemoStep(p) ==
    \/ CacheCall(p)
    \/ CacheAfterGet(p)
    \/ CacheAfterSet(p)
    \/ FuncCall(p)
    \/ FuncLock(p)
    \/ FuncAfterGet(p)
    \/ FuncAfterSet(p)

\* One caller memoizing one function, through cache! or through cache_func!,
\* on a store that is empty or holds what an earlier run has left.
InitMemo ==
    /\ backend \in Backends
    /\ dirPath = <<"d">>
    /\ EmptyStore \/ LeftoverStore
    /\ InitCallers
    /\ variant \in {"cache", "func"}
    /\ rty \in Types
    /\ body \in {"plain", "fib"}
    /\ body = "fib" => (variant = "func" /\ rty = "u64")
    /\ hargs = <<0, 0>>
    /\ hfuns = NoFuns

NextMemo == MemoStep(1) \/ GetSetStep(1)

SpecMemo == InitMemo /\ [][NextMemo]_vars

\* Two threads of one process calling the function that cache_func! wraps.
InitFunc ==
    /\ backend \in Backends
    /\ dirPath = <<"d">>
    /\ EmptyStore
    /\ InitCallers
    /\ variant = "func"
    /\ rty = "u64"
    /\ body \in {"plain", "fib"}
    /\ hargs = <<0, 0>>
    /\ hfuns = NoFuns

\* A thread makes at most MaxThreadCalls outermost calls.
ThreadStep(p) ==
    \/ FuncCall(p) /\ ncalls[p] < MaxThreadCalls
    \/ FuncLock(p)
    \/ FuncAfterGet(p)
    \/ FuncAfterSet(p)
    \/ GetSetStep(p)

NextFunc == \E p \in Procs : ThreadStep(p)

SpecFunc == InitFunc /\ [][NextFunc]_vars

\* The scheduler lets every thread that can take a step take one eventually.
SpecFuncFair == SpecFunc /\ \A p \in Procs : WF_vars(ThreadStep(p))

\* Two processes, each with a storage of its own on the same directory or
\* server, calling the same function through cache!.
InitRace ==
    /\ backend \in Backends
    /\ dirPath = <<"d">>
    /\ EmptyStore
    /\ InitCallers
    /\ variant = "cache"
    /\ rty \in {"unit", "u64"}
    /\ body = "plain"
    /\ hargs = <<0, 0>>
    /\ hfuns = NoFuns

\* A process makes at most MaxThreadCalls calls of cache!.
RaceStep(p) ==
    \/ CacheCall(p) /\ ncalls[p] < MaxThreadCalls
    \/ CacheAfterGet(p)
    \/ CacheAfterSet(p)
    \/ GetSetStep(p)

NextRace == \E p \in Procs : RaceStep(p)

SpecRace == InitRace /\ [][NextRace]_vars

\* ------------------------------------------------------ key derivation

\* cache!(s, g(a, b)): the arguments are hashed and var_name is made.
DeriveKey ==
    /\ hkeys = <<>>
    /\ hkeys' = <<VarNameOf(hargs)>>
    /\ UNCHANGED <<backend, dirPath, storeVars, pc, call, fd, iter, ret, faulted,
                   faults, prev, nops, stored, began, variant, rty, body, hargs, hfuns,
                   stk, out, computed, mutex, poisoned, ncalls, mcall, mprev>>

\* cache!(s, g(b, a)): the same call with its two arguments swapped.
DeriveSwappedKey ==
    /\ Len(hkeys) = 1
    /\ hkeys' = hkeys \o <<VarNameOf(<<hargs[2], hargs[1]>>)>>
    /\ UNCHANGED <<backend, dirPath, storeVars, pc, call, fd, iter, ret, faulted,
                   faults, prev, nops, stored, began, variant, rty, body, hargs, hfuns,
                   stk, out, computed, mutex, poisoned, ncalls, mcall, mprev>>

\* A function of two integers called through cache!, as in test_hashing.
InitKey ==
    /\ backend = "File"
    /\ dirPath = <<"d">>
    /\ EmptyStore
    /\ InitCallers
    /\ variant = "cache"
    /\ rty = "u64"
    /\ body = "plain"
    /\ hargs \in (0..MaxKeyArg) \X (0..MaxKeyArg)
    /\ hfuns = NoFuns

NextKey == DeriveKey \/ DeriveSwappedKey

SpecKey == InitKey /\ [][NextKey]_vars

\* cache!(s, f(a, b), prefix) for the i-th of the two functions.
DeriveKeyOf(i) ==
    /\ Len(hkeys) = i - 1
    /\ hkeys' = hkeys \o <<Format(hfuns[i].prefix, hfuns[i].f, hargs)>>
    /\ UNCHANGED <<backend, dirPath, storeVars, pc, call, fd, iter, ret, faulted,
                   faults, prev, nops, stored, began, variant, rty, body, hargs, hfuns,
                   stk, out, computed, mutex, poisoned, ncalls, mcall, mprev>>

\* Two functions of two integers, each called through cache! with a prefix.
InitFuns ==
    /\ backend = "File"
    /\ dirPath = <<"d">>
    /\ EmptyStore
    /\ InitCallers
    /\ variant = "cache"
    /\ rty = "u64"
    /\ body = "plain"
    /\ hargs \in (0..MaxArg) \X (0..MaxArg)
    /\ hfuns \in [prefix : Prefixes, f : FuncNames] \X [prefix : Prefixes, f : FuncNames]

NextFuns == DeriveKeyOf(1) \/ DeriveKeyOf(2)

SpecFuns == InitFuns /\ [][NextFuns]_vars

\* ------------------------------------------------------------------ claims

\* The entry for name n is absent from caller p's storage.
EntryAbsent(p, n) ==
    CASE backend = "Redis" -> kv[n] = Absent
      [] backend = "File" -> dir[n] = NoInode
      [] OTHER -> dir[n] = NoInode /\ mem[Handle(p)][n] = Absent

\* Caller p has just completed a get of the name it set successfully in the
\* call before, and no fault hit the get.
GetAfterSet(p) ==
    /\ pc[p] = "done"
    /\ call[p].op = "get"
    /\ ~faulted[p]
    /\ prev[p].call.op = "set"
    /\ prev[p].call.name = call[p].name
    /\ prev[p].ret.st = "ok"

\* C2: on every backend, a successful set(k, v) followed immediately by
\* get(k) returns exactly v.
C2_RoundTrip ==
    \A p \in Procs : GetAfterSet(p) => ret[p] = Ok(prev[p].call.val)

\* C2 witness: a FileStorage get has returned the two bytes just set.
C2_Witness ==
    /\ backend = "File"
    /\ GetAfterSet(1)
    /\ prev[1].call.val = Val(2)
    /\ ret[1] = Ok(Val(2))

\* C3: on every backend, get of a name that has no entry returns an empty
\* blob as a success (an error only when the Redis connection fails) in one
\* step that leaves the store as it was.
C3_GetAbsentIsEmpty ==
    [][\A p \in Procs :
         (/\ pc[p] \in {"get_open", "redis_get"}
          /\ EntryAbsent(p, call[p].name)
          /\ pc'[p] # pc[p])
         => /\ pc'[p] = "done"
            /\ \/ ret'[p] = Ok(<<>>)
               \/ backend = "Redis" /\ faulted'[p] /\ ret'[p] = Err
            /\ storeVars' = storeVars]_vars

\* C3 witness: a get of an absent name has returned the empty blob, after a
\* flush that succeeded.
C3_Witness ==
    /\ pc[1] = "done"
    /\ call[1].op = "get"
    /\ EntryAbsent(1, call[1].name)
    /\ ret[1] = Ok(<<>>)
    /\ prev[1].call.op = "flush"
    /\ prev[1].ret.st = "ok"

\* C4 (as claimed): after a successful flush, in a run without faults, no entry whose name starts
\* with "pc_" remains, and a get of it returns empty bytes.
C4_FlushRemovesPrefixed ==
    \A p \in Procs :
        (pc[p] = "done" /\ call[p].op = "flush" /\ ret[p].st = "ok" /\ faults = 0)
        => \A n \in Names : IsPrefix(PREFIX \o <<"_">>, n) => EntryAbsent(p, n)

\* Processes 1 and 2 have each made one call, a set of the same name, and
\* both calls have returned success.
BothSetDone ==
    /\ \A p \in Procs :
         /\ nops[p] = 1
         /\ pc[p] = "done"
         /\ call[p].op = "set"
         /\ ret[p].st = "ok"
    /\ call[1].name = call[2].name

\* C5 (as claimed): when two processes race in FileStorage.set on one name,
\* the file ends up holding exactly the one value or exactly the other.
C5_NoTornWrite ==
    BothSetDone =>
        /\ dir[call[1].name] # NoInode
        /\ data[dir[call[1].name]] \in {call[1].val, call[2].val}

\* What a get of entry n through the storage of caller p returns when nothing
\* goes wrong.
Lookup(p, n) ==
    CASE backend = "Redis" -> IF kv[n] = Absent THEN <<>> ELSE kv[n]
      [] backend = "FileMemory" /\ mem[Handle(p)][n] # Absent -> mem[Handle(p)][n]
      [] OTHER -> IF dir[n] = NoInode THEN <<>> ELSE data[dir[n]]

\* Caller p has completed a call of cache! right after another one with the
\* same argument that found no entry, computed and returned Ok; no fault.
SecondCacheCall(p) ==
    /\ variant = "cache"
    /\ faults = 0
    /\ stk[p] = <<>>
    /\ out[p].st = "ok"
    /\ mprev[p].out.st = "ok"
    /\ mprev[p].miss
    /\ mprev[p].arg = mcall[p].arg

\* C1: of two calls of cache! in a row with the same key, on a store without
\* an entry for it, the first computes once and stores the encoded result, and
\* the second does not compute and returns the value the first one stored.
C1_SecondCallFetches ==
    \A p \in Procs :
        SecondCacheCall(p) =>
            /\ ~mcall[p].miss
            /\ computed[mcall[p].arg] = 1
            /\ out[p] = mprev[p].out

\* Caller p has completed a call of cache! (or of the plain function wrapped
\* by cache_func!) that found no entry, computed, stored and returned.
StoredAfterMiss(p) ==
    /\ body = "plain"
    /\ faults = 0
    /\ stk[p] = <<>>
    /\ out[p].st = "ok"
    /\ mcall[p].miss
    /\ call[p].op = "set"
    /\ call[p].name = VarName(mcall[p].arg)
    /\ ret[p].st = "ok"

\* C10: the entry that a memoized call stores for a value is read back as
\* present: what a get of its key returns is never taken for a miss.
C10_StoredIsPresent ==
    \A p \in Procs :
        StoredAfterMiss(p) => ~IsMiss(rty, Lookup(p, VarName(mcall[p].arg)))

\* The get of the top invocation of p has returned bytes that are not empty
\* and cannot be decoded, and p takes its next step.
DecodeFailure(p) ==
    /\ stk[p] # <<>>
    /\ Top(p).at = "get"
    /\ pc[p] = "done"
    /\ ret[p].st = "ok"
    /\ ret[p].val # <<>>
    /\ DeserializeFails(rty, ret[p].val)

\* C8: when get returns bytes that are not empty and do not decode, the
\* memoized call fails (an error from cache!, a panic from cache_func!)
\* without running the function, without calling set, and with the store as
\* it was.
C8_DecodeFailureIsFatal ==
    [][\A p \in Procs :
         (DecodeFailure(p) /\ stk'[p] # stk[p]) =>
             /\ stk'[p] = <<>>
             /\ out'[p].st \in {"err", "panic"}
             /\ computed' = computed
             /\ call'[p] = call[p]
             /\ pc'[p] = "done"
             /\ storeVars' = storeVars]_vars

\* A call has failed on an entry that does not decode, in this variant.
DecodeFailed(v) ==
    /\ variant = v
    /\ stk[1] = <<>>
    /\ out[1].st \in {"err", "panic"}
    /\ call[1].op = "get"
    /\ ret[1].st = "ok"
    /\ ret[1].val # <<>>
    /\ DeserializeFails(rty, ret[1].val)
    /\ computed[mcall[1].arg] = 0

C8_Witness == DecodeFailed("func")

\* C9: a call of cache! that found no entry and computed returns Ok with the
\* value only when the encoding succeeded and set returned Ok; when the
\* encoding or the set fails the call returns Err.
C9_NoPartialSuccess ==
    \A p \in Procs :
        (variant = "cache" /\ stk[p] = <<>> /\ mcall[p].miss) =>
            /\ out[p].st \in {"ok", "err"}
            /\ out[p].st = "ok" <=>
                 /\ ~SerializeFails(rty, FuncValue(mcall[p].arg))
                 /\ call[p] = SetCall(mcall[p].arg, FuncValue(mcall[p].arg))
                 /\ ret[p].st = "ok"
            /\ out[p].st = "ok" => out[p].val = FuncValue(mcall[p].arg)

\* A set that failed after a computation that succeeded, reported as Err.
C9_Witness ==
    /\ variant = "cache"
    /\ stk[1] = <<>>
    /\ mcall[1].miss
    /\ call[1].op = "set"
    /\ ret[1].st = "err"
    /\ out[1].st = "err"

\* Thread p is inside the statement that calls get or set on the storage.
InStorageStatement(p) == stk[p] # <<>> /\ Top(p).at \in {"get", "set"}

\* Thread p is between its get and its set: the function body runs, or the
\* thread is about to lock the mutex again for the set.
InBody(p) == \E i \in 1..Len(stk[p]) : stk[p][i].at \in {"body1", "body2", "lock_set"}

\* C6 (as claimed): a thread that is between the get and the set of an
\* invocation holds the mutex, and of two threads calling the function once
\* each, at most one runs the body for a given argument.
C6_MutexHeldThroughout ==
    /\ \A p \in Procs : InBody(p) => mutex = p
    /\ (body = "plain" /\ \A p \in Procs : ncalls[p] <= 1)
         => \A a \in Args : computed[a] <= 1

\* C6 (amended): the mutex is held exactly by the thread that is inside a get
\* or a set statement, so these statements never overlap, and it is free while
\* a body runs.
C6_MutexHeldPerStatement ==
    \A p \in Procs : InStorageStatement(p) <=> mutex = p

\* Two threads have both run the body for the same argument on an empty store,
\* one of them while the other was inside its storage statement.
C6_Witness ==
    /\ body = "plain"
    /\ \E a \in Args : computed[a] = 2 /\ mcall[1].arg = a /\ mcall[2].arg = a
    /\ mutex = 1
    /\ InBody(2)

\* The result of the call thread p has completed is the value of the function.
CorrectResult(p) ==
    (stk[p] = <<>> /\ out[p].st = "ok") => out[p].val = FuncValue(mcall[p].arg)

\* C7: an invocation of a function wrapped by cache_func!, recursive or not,
\* comes to an end, and a result it returns is the value of the function; a
\* nested invocation does not wait forever for the mutex.
C7_RecursionTerminates ==
    /\ [](CorrectResult(1) /\ CorrectResult(2))
    /\ (stk[1] # <<>>) ~> (stk[1] = <<>>)
    /\ (stk[2] # <<>>) ~> (stk[2] = <<>>)

\* fib(MaxArg) has returned its value through nested invocations that stored.
C7_Witness ==
    /\ body = "fib"
    /\ stk[1] = <<>>
    /\ mcall[1].arg = MaxArg
    /\ mcall[1].miss
    /\ out[1] = MOk(Fib(MaxArg))
    /\ call[1] = SetCall(MaxArg, Fib(MaxArg))
    /\ computed[MaxArg - 1] >= 1

\* The get of process p returns in this step.
GetReturns(p) == call[p].op = "get" /\ pc[p] # "done" /\ pc'[p] = "done"

\* C11: once a set of a non-empty blob under a name has completed, and until
\* a flush runs, every get of that name that any process begins returns bytes
\* that are not empty, also while another process is inside a later set of
\* the name.
C11_EntryOutlivesSets ==
    [][\A p \in Procs :
         (GetReturns(p) /\ began[p] /\ stored[call[p].name] /\ faults' = 0) =>
             (ret'[p].st = "ok" /\ ret'[p].val # <<>>)]_vars


\* C12: the key derived for a call with the arguments (a, b) differs from the
\* key derived for the same call with the arguments (b, a), when a # b.
C12_KeyOrderSensitive ==
    (Len(hkeys) = 2 /\ hargs[1] # hargs[2]) => hkeys[1] # hkeys[2]

\* The keys of test_hashing's two calls, (6, 2) and (2, 6), have been derived.
C12_Witness == Len(hkeys) = 2 /\ hargs = <<6, 2>>


\* The bytes stored under name n, or Absent.
StoredBytes(n) ==
    IF backend = "Redis" THEN kv[n]
    ELSE IF dir[n] = NoInode THEN Absent ELSE data[dir[n]]

\* Caller p has made a call of cache! and is back from it.
CacheCallDone(p) == ncalls[p] >= 1 /\ stk[p] = <<>>

C14_GetFailureSurfaces ==
    \A p \in Procs :
        (backend # "Redis" /\ call[p].op = "get" /\ pc[p] = "done" /\ faulted[p])
            => ret[p].st = "err"


\* The get of the top invocation of p has returned an error.
GetFailure(p) ==
    /\ stk[p] # <<>>
    /\ Top(p).at = "get"
    /\ pc[p] = "done"
    /\ ret[p].st = "err"

\* C15: when get returns an error the memoized call ends at once, with that
\* error from cache! and with a panic from cache_func!: the function is not
\* run, set is not called and the store stays as it is.
C15_GetErrorPropagates ==
    [][\A p \in Procs :
         (GetFailure(p) /\ stk'[p] # stk[p]) =>
             /\ stk'[p] = <<>>
             /\ out'[p] = IF variant = "cache" THEN MErr ELSE MPanic
             /\ computed' = computed
             /\ call'[p] = call[p]
             /\ pc'[p] = "done"
             /\ storeVars' = storeVars]_vars

\* A call of the function wrapped by cache_func! has panicked on the error
\* of its get, without running the body.
C15_Witness ==
    /\ variant = "func"
    /\ stk[1] = <<>>
    /\ out[1] = MPanic
    /\ call[1].op = "get"
    /\ ret[1].st = "err"
    /\ computed[mcall[1].arg] = 0


\* C16: when a call of a function wrapped by cache_func! that missed gives a
\* value back, set was called for its key with that value before it returned,
\* whichever way the body yields the value.
C16_SetBeforeReturn ==
    \A p \in Procs :
        (variant = "func" /\ stk[p] = <<>> /\ out[p].st = "ok" /\ mcall[p].miss)
            => call[p] = SetCall(mcall[p].arg, out[p].val)


\* The get of process p reads the file and inserts into mem in this step.
ReadsThrough(p) ==
    /\ backend = "FileMemory"
    /\ pc[p] = "get_read"
    /\ mem'[Handle(p)][call[p].name] # mem[Handle(p)][call[p].name]

\* C17: a get of FileMemoryStorage that misses mem and reads the file inserts
\* the bytes into mem only when they are not empty.
C17_NoEmptyReadThrough ==
    [][\A p \in Procs :
         ReadsThrough(p) => mem'[Handle(p)][call[p].name] # <<>>]_vars


\* Process p is about to run a get of a name that its mem holds.
HitsMemory(p) ==
    /\ backend = "FileMemory"
    /\ pc[p] = "get_open"
    /\ mem[Handle(p)][call[p].name] # Absent

\* C18: a get of FileMemoryStorage of a name that mem holds returns the bytes
\* in mem at once, without touching the file, whatever the file has become;
\* and the bytes mem holds for a name change only in a set or a flush of the
\* same instance.
C18_MemoryHitIsStable ==
    [][\A p \in Procs :
         /\ (HitsMemory(p) /\ pc'[p] # pc[p]) =>
               /\ pc'[p] = "done"
               /\ ret'[p] = Ok(mem[Handle(p)][call[p].name])
               /\ fd'[p] = NoInode
               /\ storeVars' = storeVars
         /\ \A n \in Names :
               (mem[p][n] # Absent /\ mem'[p][n] # mem[p][n]) =>
                   (pc[p] \in {"set_create", "flush_scan"} /\ pc'[p] # pc[p])]_vars

\* Process 1 has got from mem the bytes it had set, after process 2 has
\* overwritten the file with other bytes.
C18_Witness ==
    /\ backend = "FileMemory"
    /\ faults = 0
    /\ nops[1] = 2 /\ nops[2] = 1
    /\ pc[1] = "done" /\ pc[2] = "done"
    /\ call[1].op = "get" /\ call[2].op = "set"
    /\ ret[1] = Ok(mem[1][PcA])
    /\ ret[1].val # <<>>
    /\ ret[1].val # call[2].val
    /\ StoredBytes(PcA) = call[2].val

\* Process p's set returns success in this step, its file still linked under
\* the name it wrote, and no operation has met an I/O error.
SetSucceeds(p) ==
    /\ backend = "FileMemory"
    /\ faults' = 0
    /\ pc[p] = "set_write"
    /\ pc'[p] = "done"
    /\ ret'[p].st = "ok"
    /\ dir[call[p].name] = fd[p]

\* C19: when a set of FileMemoryStorage returns success, mem and the file of
\* the name both hold exactly the value that was set.
C19_WriteThrough ==
    [][\A p \in Procs :
         SetSucceeds(p) =>
             /\ mem'[Handle(p)][call[p].name] = call[p].val
             /\ dir'[call[p].name] # NoInode
             /\ data'[dir'[call[p].name]] = call[p].val]_vars

\* Process p has returned from a flush of FileMemoryStorage.
FlushReturned(p) ==
    /\ backend = "FileMemory"
    /\ pc[p] = "done"
    /\ call[p].op = "flush"

\* C20: after a flush of FileMemoryStorage returns, with success or with an
\* error, mem is empty; and after a successful one a get of any name that
\* starts with PREFIX_ gives empty bytes.
C20_FlushForgets ==
    \A p \in Procs :
        FlushReturned(p) =>
            /\ \A n \in Names : mem[Handle(p)][n] = Absent
            /\ ret[p].st = "ok" =>
                 \A n \in {PcA, PcB} : Lookup(p, n) = <<>>

\* Process p's flush returns an error in this step.
FlushFails(p) ==
    /\ pc[p] \in {"flush_scan", "flush_next"}
    /\ pc'[p] = "done"
    /\ ret'[p].st = "err"

\* C21: a flush of FileStorage ends at its first failure and returns the
\* error: the failing step restores and removes nothing, so what was deleted
\* stays deleted and what was not yet visited stays in place; and a flush
\* only ever unlinks files whose name starts with PREFIX_ and changes the
\* content of none.
C21_FlushStopsAtFailure ==
    [][/\ \A p \in Procs : FlushFails(p) => (dir' = dir /\ data' = data /\ iter'[p] = {})
       /\ \A n \in Names :
            /\ dir'[n] # dir[n] => (dir'[n] = NoInode /\ RedisPatternMatches(n))
            /\ dir'[n] # NoInode => data'[dir'[n]] = data[dir'[n]]]_vars

\* Process 1's flush has failed after it deleted a file: another file with the
\* prefix is still there, and so is the one without it. Process 2 did nothing.
C21_Witness ==
    /\ nops[2] = 0
    /\ pc[1] = "done"
    /\ call[1].op = "flush"
    /\ ret[1].st = "err"
    /\ \E n \in Names : RedisPatternMatches(n) /\ dir[n] = NoInode
    /\ \E n \in Names : RedisPatternMatches(n) /\ dir[n] # NoInode
    /\ dir[Other] # NoInode

\* Both processes have run a flush to its end, on a directory given without
\* a trailing '/', and nothing has met an I/O error.
BothFlushDone ==
    /\ dirPath = <<"d">>
    /\ faults = 0
    /\ \A p \in Procs : pc[p] = "done" /\ call[p].op = "flush"

\* C28: two processes that flush the same directory at the same time both
\* return success and leave no file whose name starts with PREFIX_.
C28_ConcurrentFlushSucceeds ==
    BothFlushDone =>
        /\ \A p \in Procs : ret[p].st = "ok"
        /\ \A n \in Names : RedisPatternMatches(n) => dir[n] = NoInode

\* Caller p runs the memoized function in this step of cache!.
Computes(p) ==
    /\ stk[p] # <<>>
    /\ Top(p).at = "get"
    /\ stk'[p] # stk[p]
    /\ computed' # computed

\* C22: a process holds the lock of a file only inside one get or one set on
\* that file, after its lock_exclusive: once the call has returned, with
\* success or with an error, it holds no lock, and it holds none while the
\* memoized function runs.
C22_LockScopedToCall ==
    [][\A p \in Procs :
         /\ \A i \in Inodes :
              lock[i] = p => (pc[p] \in {"get_read", "set_write"} /\ fd[p] = i)
         /\ pc[p] \in {"idle", "done"} => \A i \in Inodes : lock[i] # p
         /\ Computes(p) => \A i \in Inodes : lock[i] # p /\ lock'[i] # p]_vars

\* A set of process 1 has failed in write_all, under the lock, having written
\* a part of the value, and has returned.
C22_Witness ==
    /\ pc[1] = "done"
    /\ call[1].op = "set"
    /\ ret[1].st = "err"
    /\ dir[call[1].name] # NoInode
    /\ data[dir[call[1].name]] # <<>>
    /\ Len(data[dir[call[1].name]]) < Len(call[1].val)

\* Caller p's call of cache! ends in this step, in which the function ran,
\* without a call of storage.set.
ReturnsFromFunction(p) ==
    /\ variant = "cache"
    /\ Computes(p)
    /\ stk'[p] = <<>>

\* Caller p is in a call of cache! whose get has returned, right after a call
\* with the same argument in which the function itself failed: that call
\* missed and gave an error, though no storage call met a fault and the value
\* could have been encoded.
AfterFailedFunction(p) ==
    /\ variant = "cache"
    /\ faults = 0
    /\ mprev[p].miss
    /\ mprev[p].out = MErr
    /\ mprev[p].arg = mcall[p].arg
    /\ ~SerializeFails(rty, FuncValue(mcall[p].arg))
    /\ ncalls[p] = 2
    /\ stk[p] = <<>> \/ Top(p).at = "set"

\* C23: in cache!, a call that ends where the function ran has returned an
\* error, has not called storage.set and has left the store as it was; and the
\* next call with the same key runs the function again.
C23_FunctionFailurePropagates ==
    [][\A p \in Procs :
         /\ ReturnsFromFunction(p) =>
              /\ out'[p] = MErr
              /\ storeVars' = storeVars
              /\ pc'[p] = pc[p] /\ call'[p] = call[p]
         /\ AfterFailedFunction(p) =>
              /\ mcall[p].miss
              /\ computed[mcall[p].arg] = 2]_vars

\* The function has failed in a first call and has been run again by the
\* second call with the same argument, which has returned its value.
C23_Witness ==
    /\ AfterFailedFunction(1)
    /\ stk[1] = <<>>
    /\ out[1].st = "ok"
    /\ computed[mcall[1].arg] = 2

\* C24: the keys of one argument sequence under two different pairs of prefix
\* and function name are different strings.
C24_KeysSeparateFunctions ==
    (Len(hkeys) = 2 /\ hfuns[1] # hfuns[2]) => hkeys[1] # hkeys[2]

\* A set of FileMemoryStorage by caller p has returned an error.
MemorySetFailed(p) ==
    /\ backend = "FileMemory"
    /\ pc[p] = "done"
    /\ call[p].op = "set"
    /\ ret[p].st = "err"

\* C25: a set of FileMemoryStorage that fails leaves mem as it was (shown for
\* the failure of File::create, which ends the call in one step), and after a
\* failed set mem does not hold for the name a value that the file lacks.
C25_FailedSetKeepsMemory ==
    [][\A p \in Procs :
         /\ (backend = "FileMemory" /\ pc[p] = "set_create" /\ pc'[p] = "done")
               => mem' = mem
         /\ MemorySetFailed(p) =>
               \/ mem[Handle(p)][call[p].name] = Absent
               \/ mem[Handle(p)][call[p].name] = StoredBytes(call[p].name)]_vars

\* Caller p's set on FileStorage has returned an error, right after a set of
\* its own on the same name that succeeded.
SetFailedAfterSet(p) ==
    /\ backend = "File"
    /\ pc[p] = "done"
    /\ call[p].op = "set"
    /\ ret[p].st = "err"
    /\ prev[p].call.op = "set"
    /\ prev[p].call.name = call[p].name
    /\ prev[p].ret.st = "ok"

\* C27: after a set of FileStorage that failed, a get returns exactly the
\* value that the entry held before.
C27_FailedSetKeepsEntry ==
    \A p \in Procs :
        SetFailedAfterSet(p) => Lookup(p, call[p].name) = prev[p].call.val

\* Thread p's first call of the memoized function has panicked, and not for a
\* value that cannot be encoded: a storage call or the decoding failed.
FailedByStorageOrDecode(p) ==
    /\ variant = "func"
    /\ ncalls[p] = 1
    /\ stk[p] = <<>>
    /\ out[p] = MPanic
    /\ ~SerializeFails(rty, FuncValue(mcall[p].arg))

\* C26: in cache_func!, after an invocation has failed by a storage error or
\* a decode error, the mutex S can still be acquired (it is not poisoned), so
\* that a later call is not made to fail by the earlier one.
C26_FailureIsLocal ==
    \A p \in Procs : FailedByStorageOrDecode(p) => ~poisoned

====
